---- MODULE Spec2Model ----
(***************************************************************************)
(* Expiration-Tracker backend (src/backend/server.js): the passwordless    *)
(* authentication subsystem.  Magic-link tokens are rows of the Postgres   *)
(* table magic_tokens; a request handler is a process that advances from   *)
(* one await to the next, so that handlers of concurrent requests          *)
(* interleave at their database queries, exactly as on the Node event      *)
(* loop.  Time is counted in minutes.  The application clock (Date.now())  *)
(* and the database clock (NOW()) are two clocks.                          *)
(***************************************************************************)
EXTENDS Integers, Sequences, FiniteSets, TLC

\* ---------------------------------------------------------------- bounds
MaxProcs == 2       \* request handlers in flight at the same time
MaxSecrets == 2     \* distinct values crypto.randomBytes(32) returns in a run
MaxRequests == 3    \* requests started in a run
MaxTime == 2        \* minutes the application clock advances in a run
MaxSkew == 1        \* minutes the database clock may differ from the application clock
MaxSessions == 1    \* session credentials issued in a run
MaxDays == 1        \* days the application clock advances in a run
MaxApiRequests == 2 \* requests to the session and CRUD routes in a run
MaxRestarts == 1    \* times the process is started again in a run

\* ------------------------------------------------------ program constants
MAGIC_LINK_MINUTES == 2
SESSION_DAYS == 1
DayMinutes == 1440
MissingToken == 0

Procs == 1..MaxProcs
Secrets == 1..MaxSecrets
None == [none |-> TRUE]

\* ------------------------------------------------------------- identities
\* An address is a sequence of symbols: single characters of the local part,
\* blanks, and the domain part as one symbol.
LowerOf(c) ==
  CASE c = "A" -> "a"
    [] c = "B" -> "b"
    [] c = "@PoolEng.com" -> "@pooleng.com"
    [] OTHER -> c

ToLowerCaseMut(s) == s
RECURSIVE ToLowerCase(_)
ToLowerCase(s) ==
  IF s = << >> THEN << >> ELSE << LowerOf(Head(s)) >> \o ToLowerCase(Tail(s))

RECURSIVE TrimStart(_)
TrimStart(s) == IF s # <<>> /\ Head(s) = " " THEN TrimStart(Tail(s)) ELSE s

RECURSIVE TrimEnd(_)
TrimEnd(s) ==
  IF s # <<>> /\ s[Len(s)] = " " THEN TrimEnd(SubSeq(s, 1, Len(s) - 1)) ELSE s

Trim(s) == TrimEnd(TrimStart(s))

LocalChars == {"a", "b", "A", "B"}

\* /^[a-zA-Z0-9._%+-]+@pooleng\.com$/i on email.trim()
isPoolEngEmailMut(email) == Len(Trim(email)) >= 2
isPoolEngEmail(email) ==
  LET t == Trim(email) IN
    /\ Len(t) >= 2
    /\ LowerOf(t[Len(t)]) = "@pooleng.com"
    /\ \A i \in 1..(Len(t) - 1) : t[i] \in LocalChars

\* The request bodies a client sends as req.body.email ("" when it is missing).
EmailInputs ==
  { <<"a", "@pooleng.com">>,
    <<" ", "B", "@PoolEng.com", " ">>,
    <<"a", "@evil.com">>,
    <<>> }

\* crypto.createHash("sha256"): one-way and collision-free on the secrets of a run.
hashTokenMut(token) == token
hashToken(token) == 100 + ((token * 7) % 11)

\* -------------------------------------------------------- session credential
JWT_SECRET == "JWT_SECRET"
\* A key that is not the process signing key (a credential made elsewhere).
OtherKey == "other-key"

\* The HMAC of a JWT: a value only the holder of the key can compute, and that
\* differs as soon as the key or any signed field differs.
Sign(email, iat, exp, key) == <<"HS256", key, email, iat, exp>>

\* jwt.sign({ email }, JWT_SECRET, { expiresIn: `${SESSION_DAYS}d` }) at time t
createSessionToken(email, t) ==
  LET exp == t + SESSION_DAYS * DayMinutes IN
    [email |-> email, iat |-> t, exp |-> exp, sig |-> Sign(email, t, exp, JWT_SECRET)]

\* ------------------------------------------------------------------- state
VARIABLES
  now,            \* Date.now() of the application process, in minutes
  dbSkew,         \* NOW() of the database server minus Date.now()
  mailMode,       \* "brevo_api" | "smtp" | "fallback"
  magic_tokens,   \* table magic_tokens: rows [token_hash, email, expires_at]
  route,          \* per handler: the route of the request it serves
  pc,             \* per handler: the await it is suspended at
  email,          \* per handler: const email
  rawToken,       \* per handler: const rawToken
  expiresAt,      \* per handler: expiresAtIso
  sent,           \* the response the last step wrote (res and its cookie), or None
  minted,         \* history: secret -> the normalised identity it was drawn for
  consumed,       \* history: secrets a verify-magic has answered with a session
  undelivered,    \* history: secrets whose email dispatch failed
  removed,        \* history: token hashes whose row has left the table
  startedAfter,   \* history, per handler: what was true of its secret when it started
  dispatched,     \* history, per handler: the mails sendMagicLinkEmail has handed over
  nreq,           \* history: requests started
  workspaces,     \* table workspaces: rows [id, name, created_at]
  items,          \* table items: rows [id, name, description, expiration_date,
                  \*   workspace_id, created_by, created_at]
  req,            \* per handler: the request [method, path, cookie, body], or None
  user,           \* per handler: req.user, or None
  document,       \* per handler: the object it has built (workspace, document,
                  \*   updatedDocument)
  touched,        \* history, per handler: queries on workspaces and items it has run
  uuid,           \* history: values crypto.randomUUID() has returned
  jar,            \* history: the session credentials issued so far
  loggedOut,      \* history: the issued credentials a logout request has carried
  arrived,        \* the request the last step took in and what requireAuth and
                  \*   the router did with it, or None
  apiSent,        \* the response the last step wrote on an API route, or None
  phase,          \* where the process is: an await of the startup, "listening"
                  \*   or "exited"
  env,            \* the environment of the process: is the Brevo API configured,
                  \*   is SMTP configured, is there a data.json
  defaultWorkspaceId,  \* let defaultWorkspaceId
  cursor,         \* the startup's position in the items of data.json
  restarts,       \* history: how many times the process was started again
  imports,        \* history: the startups that have imported an item of data.json
  consumedBefore, \* history: the secrets redeemed before the last restart
  magicTokens,    \* the in-memory variant's const magicTokens = new Map(): its
                  \*   entries [key, email, expiresAt]
  memSent,        \* the response the in-memory variant wrote to the last call
                  \*   it was given, or None
  memCalls        \* history: the calls the in-memory variant was given

apiVars == << workspaces, items, req, user, document, touched, uuid, jar,
              loggedOut, arrived, apiSent >>
authVars == << magic_tokens, email, rawToken, expiresAt, sent, minted, consumed,
               undelivered, removed, startedAfter, dispatched >>

bootVars == << phase, env, defaultWorkspaceId, cursor, restarts, imports,
              consumedBefore >>

memVars == << magicTokens, memSent, memCalls >>

vars == << now, dbSkew, mailMode, route, pc, nreq, authVars, apiVars, bootVars,
          memVars >>

clockVars == << now, dbSkew, mailMode >>
histVars == << minted, consumed, undelivered >>

MailModes == {"brevo_api", "smtp", "fallback"}

\* NOW() as the database server evaluates it
DbNow == now + dbSkew

NoStart == [used |-> FALSE, undelivered |-> FALSE]

\* No request has arrived yet.
InitRequests ==
  /\ now = 0
  /\ magic_tokens = {}
  /\ route = [p \in Procs |-> "none"]
  /\ pc = [p \in Procs |-> "idle"]
  /\ email = [p \in Procs |-> << >>]
  /\ rawToken = [p \in Procs |-> MissingToken]
  /\ expiresAt = [p \in Procs |-> 0]
  /\ sent = None
  /\ minted = [s \in Secrets |-> None]
  /\ consumed = {}
  /\ undelivered = {}
  /\ removed = {}
  /\ startedAfter = [p \in Procs |-> NoStart]
  /\ dispatched = [p \in Procs |-> << >>]
  /\ nreq = 0
  /\ req = [p \in Procs |-> None]
  /\ user = [p \in Procs |-> None]
  /\ document = [p \in Procs |-> None]
  /\ touched = [p \in Procs |-> 0]
  /\ uuid = 0
  /\ jar = {}
  /\ loggedOut = {}
  /\ arrived = None
  /\ apiSent = None
  /\ magicTokens = {}
  /\ memSent = None
  /\ memCalls = 0

\* The default workspace as an earlier startup left it.
General == [id |-> "w0", name |-> << "General" >>, created_at |-> 0]

\* The process has completed its startup on a database without documents and
\* listens, its mail mode being the one its environment selects.
Init ==
  /\ InitRequests
  /\ dbSkew \in (0 - MaxSkew)..MaxSkew
  /\ mailMode \in MailModes
  /\ workspaces = {General}
  /\ items = {}
  /\ phase = "listening"
  /\ env = [brevo |-> mailMode = "brevo_api", smtp |-> mailMode = "smtp",
            legacy |-> FALSE]
  /\ defaultWorkspaceId = General.id
  /\ cursor = 0
  /\ restarts = 0
  /\ imports = {}
  /\ consumedBefore = {}

\* ------------------------------------------------------------ the database
\* The table is the set of its rows; token_hash is its primary key.
\* DELETE FROM magic_tokens WHERE expires_at <= NOW()
SweepKeepsMut(row, t) == row.expires_at >= t
SweepKeeps(row, t) == row.expires_at > t

DeleteExpiredRows(table, t) == {row \in table : SweepKeeps(row, t)}

\* DELETE FROM magic_tokens WHERE token_hash = $1
DeleteRow(table, h) == {row \in table : row.token_hash # h}

\* INSERT ... ON CONFLICT (token_hash) DO UPDATE SET email, expires_at
UpsertRow(table, h, e, x) ==
  {row \in table : row.token_hash # h}
    \cup {[token_hash |-> h, email |-> e, expires_at |-> x]}

\* SELECT email, expires_at FROM magic_tokens WHERE token_hash = $1 LIMIT 1
SelectRows(table, h) == {row \in table : row.token_hash = h}

\* deleteExpiredMagicTokens(): the query runs, or it throws and the error is
\* logged and dropped; the caller continues in both cases.
deleteExpiredMagicTokens(ok) ==
  magic_tokens' = IF ok THEN DeleteExpiredRows(magic_tokens, DbNow) ELSE magic_tokens

\* The hashes that are keys of the table before a step and not after it.
Hashes(table) == {row.token_hash : row \in table}
LogRemoved == removed' = removed \cup (Hashes(magic_tokens) \ Hashes(magic_tokens'))

\* ------------------------------------------------------------- responses
Json(status, body) == [status |-> status, body |-> body]
Redirect(location) == [status |-> 302, body |-> location]

\* A request is taken by the first handler that is free: which handler serves a
\* request makes no difference to the program.
CanStart(p) ==
  /\ phase = "listening"
  /\ pc[p] = "idle"
  /\ \A q \in Procs : q < p => pc[q] # "idle"
  /\ nreq < MaxRequests

\* A request arrives at handler p.
Start(p, r, e, t) ==
  /\ route' = [route EXCEPT ![p] = r]
  /\ email' = [email EXCEPT ![p] = e]
  /\ rawToken' = [rawToken EXCEPT ![p] = t]
  /\ startedAfter' = [startedAfter EXCEPT ![p] =
        [used |-> t \in consumed, undelivered |-> t \in undelivered]]
  /\ dispatched' = [dispatched EXCEPT ![p] = << >>]
  /\ nreq' = nreq + 1

Goto(p, label) ==
  /\ pc' = [pc EXCEPT ![p] = label]
  /\ sent' = None
  /\ UNCHANGED << route, email, rawToken, expiresAt, startedAfter, dispatched, nreq >>

\* The handler is over: its locals are gone.
Return(p) ==
  /\ pc' = [pc EXCEPT ![p] = "idle"]
  /\ route' = [route EXCEPT ![p] = "none"]
  /\ email' = [email EXCEPT ![p] = << >>]
  /\ rawToken' = [rawToken EXCEPT ![p] = MissingToken]
  /\ expiresAt' = [expiresAt EXCEPT ![p] = 0]
  /\ startedAfter' = [startedAfter EXCEPT ![p] = NoStart]
  /\ dispatched' = [dispatched EXCEPT ![p] = << >>]

\* res.json / res.redirect, with the cookie set on res and, for the record, the
\* handler's const email, the row it had read and the mails it had handed over.
Response(r, e, t, httpRes, setCookie, row, after, mails) ==
  [route |-> r, email |-> e, rawToken |-> t, res |-> httpRes, cookie |-> setCookie,
   tokenRecord |-> row, startedAfter |-> after, replay |-> t \in consumed,
   mail |-> mails]

Respond(p, httpRes, setCookie, row) ==
  /\ sent' = Response(route[p], email[p], rawToken[p], httpRes, setCookie, row,
                      startedAfter[p], dispatched[p])
  /\ Return(p)
  /\ UNCHANGED nreq

\* A request answered by its first synchronous block.
RespondAtOnce(p, r, e, t, httpRes) ==
  /\ CanStart(p)
  /\ sent' = Response(r, e, t, httpRes, None, None, NoStart, << >>)
  /\ nreq' = nreq + 1
  /\ UNCHANGED << pc, route, email, rawToken, expiresAt, startedAfter, dispatched >>

\* The promise an async handler returned is rejected and nothing in the program
\* catches it: Express 4 drops it and the request is never answered, Express 5
\* hands the error to its default error handler, which answers 500. The
\* repository pins neither.
UncaughtOutcomes == {None, Json(500, <<"Internal Server Error">>)}

\* --------------------------------------------- POST /auth/request-magic-link
\* const email = String(req.body?.email || "").trim().toLowerCase()
NormalizeEmail(body) == ToLowerCase(Trim(body))

\* Line 333: res.status(400).json({ error: ... })
\* (a body of the auth routes is the sequence of the parts of its text)
InvalidIdentity == Json(400, <<"Only @pooleng.com emails are allowed">>)

\* Lines 331-336: the identity is normalised and checked; a disallowed one is
\* answered 400, an allowed one goes on to await deleteExpiredMagicTokens().
RequestMagicLink(p, body) ==
  /\ UNCHANGED apiVars
  /\ IF isPoolEngEmail(NormalizeEmail(body))
       THEN /\ CanStart(p)
            /\ Start(p, "request-magic-link", NormalizeEmail(body), MissingToken)
            /\ pc' = [pc EXCEPT ![p] = "rml_sweep"]
            /\ sent' = None
            /\ UNCHANGED expiresAt
       ELSE RespondAtOnce(p, "request-magic-link", NormalizeEmail(body), MissingToken,
                          InvalidIdentity)
  /\ UNCHANGED << memVars, bootVars, clockVars, histVars, removed, magic_tokens >>

\* new Date(Date.now() + MAGIC_LINK_MINUTES * 60 * 1000)
ExpiryOfMut(t) == MAGIC_LINK_MINUTES
ExpiryOf(t) == t + MAGIC_LINK_MINUTES

\* crypto.randomBytes(32): a value no earlier call has returned; the values of a
\* run are numbered in the order they are drawn.
IsFreshMut(secret) == secret \in Secrets
IsFresh(secret) ==
  /\ minted[secret] = None
  /\ \A s \in Secrets : s < secret => minted[s] # None

\* Lines 336-340: the sweep's DELETE runs (or fails, which is only logged);
\* then the secret is drawn and its expiry computed, and the INSERT is issued.
RmlSweep(p, ok, secret) ==
  /\ UNCHANGED apiVars
  /\ pc[p] = "rml_sweep"
  /\ IsFresh(secret)
  /\ deleteExpiredMagicTokens(ok)
  /\ rawToken' = [rawToken EXCEPT ![p] = secret]
  /\ expiresAt' = [expiresAt EXCEPT ![p] = ExpiryOf(now)]
  /\ minted' = [minted EXCEPT ![secret] = email[p]]
  /\ pc' = [pc EXCEPT ![p] = "rml_insert"]
  /\ sent' = None
  /\ LogRemoved
  /\ UNCHANGED << memVars, bootVars, clockVars, consumed, undelivered, route, email, startedAfter,
                  dispatched, nreq >>

\* `${MAGIC_LINK_BASE_URL}/auth/verify-magic?token=${encodeURIComponent(rawToken)}`
MagicLink(token) == <<"MAGIC_LINK_BASE_URL", "/auth/verify-magic?token=", token>>

Mail(channel, toEmail, link) == [via |-> channel, to |-> toEmail, link |-> link]

\* sendMagicLinkEmail({ toEmail, link }) under the mail mode: what it hands over,
\* in order. Each branch ends with return; in the Brevo mode no SMTP transporter
\* was built (initializeMailSender returns before building one).
sendMagicLinkEmailMut(mode, toEmail, link) ==
  IF mode = "brevo_api"
    THEN << Mail("fetch", toEmail, link), Mail("console.log", toEmail, link) >>
  ELSE IF mode = "smtp" THEN << Mail("sendMail", toEmail, link) >>
  ELSE << Mail("console.log", toEmail, link) >>
sendMagicLinkEmail(mode, toEmail, link) ==
  IF mode = "brevo_api" THEN << Mail("fetch", toEmail, link) >>
  ELSE IF mode = "smtp" THEN << Mail("sendMail", toEmail, link) >>
  ELSE << Mail("console.log", toEmail, link) >>

\* Lines 341-349: the INSERT runs and the link is handed to sendMagicLinkEmail,
\* which issues its fetch or sendMail or logs the link; or the INSERT throws and
\* nothing in the handler catches it, so the handler ends there without having
\* written a response.
RmlInsert(p, ok) ==
  /\ UNCHANGED apiVars
  /\ pc[p] = "rml_insert"
  /\ IF ok
       THEN /\ magic_tokens' =
                 UpsertRow(magic_tokens, hashToken(rawToken[p]), email[p], expiresAt[p])
            /\ dispatched' = [dispatched EXCEPT ![p] =
                 @ \o sendMagicLinkEmail(mailMode, email[p], MagicLink(rawToken[p]))]
            /\ pc' = [pc EXCEPT ![p] = "rml_send"]
            /\ sent' = None
            /\ UNCHANGED << route, email, rawToken, expiresAt, startedAfter, nreq >>
       ELSE /\ \E outcome \in UncaughtOutcomes :
                 IF outcome = None
                   THEN Return(p) /\ sent' = None /\ UNCHANGED nreq
                   ELSE Respond(p, outcome, None, None)
            /\ UNCHANGED magic_tokens
  /\ LogRemoved
  /\ UNCHANGED << memVars, bootVars, clockVars, histVars >>

\* sendMagicLinkEmail: the Brevo API answers not-ok or fetch throws, sendMail
\* throws; the local fallback only logs the link and cannot fail.
CanFailToSend(mode) == mode \in {"brevo_api", "smtp"}

\* Line 365: res.json({ message: ... }), whatever the handler's email and rawToken
AcknowledgementMut(e, token) ==
  IF e = <<"a", "@pooleng.com">>
    THEN Json(200, <<"If the email is valid, a magic login link has been sent.">>)
    ELSE Json(200, <<"No account for this email">>)
Acknowledgement(e, token) ==
  Json(200, <<"If the email is valid, a magic login link has been sent.">>)

\* Lines 357-362 with NODE_ENV = production: res.status(500).json({ error: ... }),
\* whatever the handler's email and rawToken
DeliveryFailureMut(e, token) ==
  Json(500, <<"Failed to send magic link email", MagicLink(token)>>)
DeliveryFailure(e, token) == Json(500, <<"Failed to send magic link email">>)

\* Lines 348-355 and 365: the dispatch succeeds and the call answers 200, or it
\* throws and the handler issues the rollback DELETE.
RmlSend(p, ok) ==
  /\ UNCHANGED apiVars
  /\ pc[p] = "rml_send"
  /\ ok \/ CanFailToSend(mailMode)
  /\ IF ok
       THEN /\ Respond(p, Acknowledgement(email[p], rawToken[p]), None, None)
            /\ UNCHANGED undelivered
       ELSE /\ Goto(p, "rml_rollback")
            /\ undelivered' = undelivered \cup {rawToken[p]}
  /\ UNCHANGED << memVars, bootVars, clockVars, magic_tokens, minted, consumed, removed >>

\* Lines 356-362: await pool.query("DELETE ...").catch(() => {}), then 500.
RmlRollback(p, ok) ==
  /\ UNCHANGED apiVars
  /\ pc[p] = "rml_rollback"
  /\ magic_tokens' =
       IF ok THEN DeleteRow(magic_tokens, hashToken(rawToken[p])) ELSE magic_tokens
  /\ Respond(p, DeliveryFailure(email[p], rawToken[p]), None, None)
  /\ LogRemoved
  /\ UNCHANGED << memVars, bootVars, clockVars, histVars >>

\* --------------------------------------------------- GET /auth/verify-magic
LoginError(code) == Redirect(<<"FRONTEND_URL", "/login?error=", code>>)
Dashboard == Redirect(<<"FRONTEND_URL", "/dashboard">>)

\* Lines 369-375: const rawToken = String(req.query.token || "")
VerifyMagic(p, token) ==
  /\ UNCHANGED apiVars
  /\ IF token = MissingToken
       THEN RespondAtOnce(p, "verify-magic", << >>, token, LoginError("missing_token"))
       ELSE /\ CanStart(p)
            /\ Start(p, "verify-magic", << >>, token)
            /\ pc' = [pc EXCEPT ![p] = "vm_sweep"]
            /\ sent' = None
            /\ UNCHANGED expiresAt
  /\ UNCHANGED << memVars, bootVars, clockVars, histVars, removed, magic_tokens >>

\* Line 375: await deleteExpiredMagicTokens(), then the SELECT is issued.
VmSweep(p, ok) ==
  /\ UNCHANGED apiVars
  /\ pc[p] = "vm_sweep"
  /\ deleteExpiredMagicTokens(ok)
  /\ Goto(p, "vm_select")
  /\ LogRemoved
  /\ UNCHANGED << memVars, bootVars, clockVars, histVars >>

\* new Date(tokenRecord.expiresAt).getTime() <= Date.now()
IsExpiredMut(row, t) == row.expires_at < t
IsExpired(row, t) == row.expires_at <= t

\* Lines 376-397: the SELECT throws and the catch answers with the login error;
\* or it finds no row: login error; or the row is expired: its DELETE is
\* issued; or the session cookie is set and the browser sent to the dashboard.
\* The row of a redeemed token stays in the table.
VmSelect(p, ok) ==
  /\ UNCHANGED apiVars
  /\ pc[p] = "vm_select"
  /\ LET rows == SelectRows(magic_tokens, hashToken(rawToken[p])) IN
       IF ~ok \/ rows = {}
         THEN /\ Respond(p, LoginError("expired_or_invalid"), None, None)
              /\ UNCHANGED consumed
         ELSE LET tokenRecord == CHOOSE row \in rows : TRUE IN
           IF IsExpired(tokenRecord, now)
             THEN /\ Goto(p, "vm_delete")
                  /\ UNCHANGED consumed
             ELSE /\ Respond(p, Dashboard, createSessionToken(tokenRecord.email, now),
                             tokenRecord)
                  /\ consumed' = consumed \cup {rawToken[p]}
  /\ UNCHANGED << memVars, bootVars, clockVars, magic_tokens, minted, undelivered, removed >>

\* Lines 388-389: await pool.query("DELETE ...").catch(() => {}), then redirect.
VmDelete(p, ok) ==
  /\ UNCHANGED apiVars
  /\ pc[p] = "vm_delete"
  /\ magic_tokens' =
       IF ok THEN DeleteRow(magic_tokens, hashToken(rawToken[p])) ELSE magic_tokens
  /\ Respond(p, LoginError("expired_or_invalid"), None, None)
  /\ LogRemoved
  /\ UNCHANGED << memVars, bootVars, clockVars, histVars >>

\* ================================================== sessions and CRUD routes
\* jwt.sign({ email }, JWT_SECRET, { expiresIn }) at lines 392-393: the outcome
\* of a GET /auth/verify-magic that found an unexpired row for identity e.
Identities == {e \in {NormalizeEmail(body) : body \in EmailInputs} : isPoolEngEmail(e)}

IssueSession(e) ==
  /\ phase = "listening"
  /\ Cardinality(jar) < MaxSessions
  /\ jar' = jar \cup {createSessionToken(e, now)}
  /\ arrived' = None
  /\ apiSent' = None
  /\ UNCHANGED << memVars, bootVars, clockVars, route, pc, nreq, authVars, workspaces, items, req,
                  user, document, touched, uuid, loggedOut >>

\* jwt.verify(token, key) at time t: the signature is recomputed over the
\* claims with the key, then exp is compared with the clock.
SignatureOk(token, key) == token.sig = Sign(token.email, token.iat, token.exp, key)
NotExpiredMut(token, t) == t <= token.exp
NotExpired(token, t) == t < token.exp
jwtVerify(token, key, t) == SignatureOk(token, key) /\ NotExpired(token, t)
Payload(token) == [email |-> token.email, iat |-> token.iat, exp |-> token.exp]

\* requireAuth(req, res, next): what it does with the cookie it is handed.
requireAuth(token, t) ==
  IF token = None
    THEN [next |-> FALSE, user |-> None, res |-> Json(401, "Authentication required")]
    ELSE IF jwtVerify(token, JWT_SECRET, t)
      THEN [next |-> TRUE, user |-> Payload(token), res |-> None]
      ELSE [next |-> FALSE, user |-> None, res |-> Json(401, "Invalid or expired session")]

\* The cookies a client can present: none, one it was issued, one it was issued
\* and then altered, one signed with a key that is not the server's.
OtherIdentity(e) == CHOOSE o \in Identities : o # e
Altered(c) ==
  {[c EXCEPT !.email = OtherIdentity(c.email)], [c EXCEPT !.exp = c.exp + DayMinutes]}
ForeignSigned(e, t) ==
  [email |-> e, iat |-> t, exp |-> t + SESSION_DAYS * DayMinutes,
   sig |-> Sign(e, t, t + SESSION_DAYS * DayMinutes, OtherKey)]
Cookies ==
  {None} \cup jar \cup UNION {Altered(c) : c \in jar}
         \cup {ForeignSigned(c.email, c.iat) : c \in jar}

\* The router's layers in the order lines 400-608 register them. A USE layer
\* matches every path under its prefix, a route layer its method and full path.
Layer(m, path, hs) == [method |-> m, path |-> path, handlers |-> hs]
DocumentRoutes(prefix) ==
  << Layer("GET", <<"api", prefix>>, <<"listDocuments">>),
     Layer("POST", <<"api", prefix>>, <<"createDocument">>),
     Layer("PUT", <<"api", prefix, ":id">>, <<"updateDocument">>),
     Layer("DELETE", <<"api", prefix, ":id">>, <<"deleteDocument">>),
     Layer("POST", <<"api", prefix, ":id", "delete">>, <<"deleteDocument">>) >>
AuthRoutes ==
  << Layer("GET", <<"auth", "me">>, <<"requireAuth", "me">>),
     Layer("POST", <<"auth", "logout">>, <<"logout">>) >>
Guards ==
  << Layer("USE", <<"api", "workspaces">>, <<"requireAuth">>),
     Layer("USE", <<"api", "documents">>, <<"requireAuth">>),
     Layer("USE", <<"api", "items">>, <<"requireAuth">>) >>
WorkspaceRoutes ==
  << Layer("GET", <<"api", "workspaces">>, <<"listWorkspaces">>),
     Layer("POST", <<"api", "workspaces">>, <<"createWorkspace">>),
     Layer("DELETE", <<"api", "workspaces", ":id">>, <<"deleteWorkspace">>) >>
RoutesMut ==
  AuthRoutes \o WorkspaceRoutes \o DocumentRoutes("documents")
    \o DocumentRoutes("items") \o Guards
Routes ==
  AuthRoutes \o Guards \o WorkspaceRoutes \o DocumentRoutes("documents")
    \o DocumentRoutes("items")

Matches(layer, r) ==
  IF layer.method = "USE"
    THEN /\ Len(layer.path) <= Len(r.path)
         /\ \A i \in 1..Len(layer.path) : layer.path[i] = r.path[i]
    ELSE /\ layer.method = r.method
         /\ Len(layer.path) = Len(r.path)
         /\ \A i \in 1..Len(layer.path) :
              layer.path[i] = ":id" \/ layer.path[i] = r.path[i]

\* The handlers a request runs through, in order, while each calls next().
RECURSIVE Handlers(_)
Handlers(layers) ==
  IF layers = << >> THEN << >> ELSE Head(layers).handlers \o Handlers(Tail(layers))
Chain(r) == Handlers(SelectSeq(Routes, LAMBDA layer : Matches(layer, r)))

\* ---------------------------------------------------------------- requests
\* A field the JSON body or the query string does not have.
NoValue == "<undefined>"
NoText == << NoValue >>

Body(n, d, x, w) == [name |-> n, description |-> d, expirationDate |-> x, workspaceId |-> w]
EmptyBody == Body(NoText, NoText, NoValue, NoValue)
Request(m, path, c, q, b) ==
  [method |-> m, path |-> path, cookie |-> c, query |-> q, body |-> b]

\* new Date(value): the instants the inputs of the model parse to.
ParsedDates ==
  [x \in {"2030-01-01", "2031-06-30T12:00:00Z"} |->
     IF x = "2030-01-01" THEN "2030-01-01T00:00:00.000Z" ELSE "2031-06-30T12:00:00.000Z"]
isValidDate(value) == value \in DOMAIN ParsedDates
toISOString(value) == ParsedDates[value]

\* crypto.randomUUID(): the n-th value drawn.
Uuids == << "u1", "u2", "u3", "u4", "u5", "u6" >>
randomUUID == Uuids[uuid + 1]

WorkspaceIds == {w.id : w \in workspaces}
DocumentIds == {d.id : d \in items}
WorkspaceParams == WorkspaceIds \cup {"nil"}
DocumentParams == DocumentIds \cup {"nil"}
Collections == {"documents", "items"}
ValidDocument == Body(<< " ", "L", " " >>, << "d" >>, "2030-01-01", "w0")

\* Every method and path of the router, and some it does not have, each with
\* a body its handler accepts.
Targets ==
  LET plain(m, path) == Request(m, path, None, NoValue, EmptyBody) IN
  {plain("GET", <<"auth", "me">>), plain("POST", <<"auth", "logout">>),
   plain("GET", <<"api", "workspaces">>), plain("PATCH", <<"api", "workspaces">>),
   plain("GET", <<"api", "reports">>),
   Request("POST", <<"api", "workspaces">>, None, NoValue,
           Body(<< " ", "L", " " >>, NoText, NoValue, NoValue))}
    \cup {plain("DELETE", <<"api", "workspaces", id>>) : id \in WorkspaceParams}
    \cup {Request("GET", <<"api", k>>, None, q, EmptyBody) :
            k \in Collections, q \in {NoValue} \cup WorkspaceIds}
    \cup {plain("DELETE", <<"api", k, id>>) : k \in Collections, id \in DocumentParams}
    \cup {plain("POST", <<"api", k, id, "delete">>) : k \in Collections, id \in DocumentParams}
    \cup {Request("POST", <<"api", k>>, None, NoValue, ValidDocument) : k \in Collections}
    \cup {Request("PUT", <<"api", k, id>>, None, NoValue, ValidDocument) :
            k \in Collections, id \in DocumentParams}

\* The same routes with the other bodies.
DocumentBodies ==
  {Body(<< "M" >>, << "d" >>, "2031-06-30T12:00:00Z", "nil"),
   Body(NoText, NoText, "2031-06-30T12:00:00Z", NoValue),
   Body(<< "M" >>, << "d" >>, "yesterday-ish", "w0"),
   Body(<< "M" >>, << "d" >>, NoValue, "w0")}
Variants ==
  {Request("POST", <<"api", "workspaces">>, None, NoValue, EmptyBody)}
    \cup {Request("POST", <<"api", "documents">>, None, NoValue, b) : b \in DocumentBodies}
    \cup {Request("PUT", <<"api", "documents", id>>, None, NoValue, b) :
            id \in DocumentParams, b \in DocumentBodies}

\* A client sends any of them with any cookie it can have.
Requests ==
  {[t EXCEPT !.cookie = c] : t \in Targets, c \in Cookies}
    \cup {[t EXCEPT !.cookie = c] : t \in Variants, c \in jar}

\* --------------------------------------------------------- handler frames
apiData == << workspaces, items >>

\* res.cookie("pooleng_session", ...) is called at line 393, in verify-magic, and
\* nowhere else: no handler of the session and CRUD routes sets a cookie for
\* the request r of user u it answers at time t.
ResCookieMut(r, u, t) ==
  IF u # None /\ r.path = <<"auth", "me">> THEN createSessionToken(u.email, t) ELSE None
ResCookie(r, u, t) == None

Answer(r, u, httpRes, n) ==
  [method |-> r.method, path |-> r.path, cookie |-> r.cookie, user |-> u,
   res |-> httpRes, queries |-> n,
   clearCookie |-> httpRes.status = 204 /\ r.path = <<"auth", "logout">>,
   setCookie |-> ResCookie(r, u, now)]

\* The handler returns inside its first synchronous block.
ApiRespondAtOnce(p, r, u, httpRes) ==
  /\ apiSent' = Answer(r, u, httpRes, 0)
  /\ loggedOut' = IF r.method = "POST" /\ r.path = <<"auth", "logout">>
                     THEN loggedOut \cup ({r.cookie} \cap jar)
                     ELSE loggedOut
  /\ nreq' = nreq + 1
  /\ UNCHANGED << pc, route, req, user, document, touched, uuid >>

\* The handler reaches its first await.
ApiStart(p, r, u, h, label, doc, drawn) ==
  /\ pc' = [pc EXCEPT ![p] = label]
  /\ route' = [route EXCEPT ![p] = h]
  /\ req' = [req EXCEPT ![p] = r]
  /\ user' = [user EXCEPT ![p] = u]
  /\ document' = [document EXCEPT ![p] = doc]
  /\ uuid' = uuid + drawn
  /\ nreq' = nreq + 1
  /\ apiSent' = None
  /\ UNCHANGED << touched, loggedOut >>

\* The handler goes from one await to the next, having run one query.
ApiGoto(p, label, doc, drawn) ==
  /\ pc' = [pc EXCEPT ![p] = label]
  /\ document' = [document EXCEPT ![p] = doc]
  /\ touched' = [touched EXCEPT ![p] = @ + 1]
  /\ uuid' = uuid + drawn
  /\ apiSent' = None
  /\ arrived' = None
  /\ UNCHANGED << route, req, user, nreq, loggedOut >>

\* The handler is over: its locals are gone.
ApiReturn(p) ==
  /\ pc' = [pc EXCEPT ![p] = "idle"]
  /\ route' = [route EXCEPT ![p] = "none"]
  /\ req' = [req EXCEPT ![p] = None]
  /\ user' = [user EXCEPT ![p] = None]
  /\ document' = [document EXCEPT ![p] = None]
  /\ touched' = [touched EXCEPT ![p] = 0]
  /\ arrived' = None
  /\ UNCHANGED << uuid, nreq, loggedOut >>

\* The handler answers after a query.
ApiRespond(p, httpRes) ==
  /\ apiSent' = Answer(req[p], user[p], httpRes, touched[p] + 1)
  /\ ApiReturn(p)

\* An awaited query outside try/catch throws: the handler ends, nothing is sent.
ApiReject(p) ==
  /\ \E outcome \in UncaughtOutcomes :
       apiSent' = IF outcome = None THEN None
                  ELSE Answer(req[p], user[p], outcome, touched[p] + 1)
  /\ ApiReturn(p)

apiFrame == << memVars, bootVars, clockVars, authVars, jar >>

\* ------------------------------------------------------ the first block
Falsy(text) == text = NoText \/ text = << >>
Done(httpRes) == [label |-> "done", res |-> httpRes, doc |-> None, drawn |-> 0]
Await(label, doc, drawn) == [label |-> label, res |-> None, doc |-> doc, drawn |-> drawn]

\* Lines 404-407: res.clearCookie(...); res.status(204).send(), whatever the
\* request carries.
logoutMut(r) ==
  IF r.cookie = None THEN Done(Json(401, "Authentication required"))
  ELSE Done(Json(204, ""))
logout(r) == Done(Json(204, ""))

\* What handler h does with request r up to its first await or its response.
Begin(h, r, u) ==
  CASE h = "me" ->
         \* line 401; req.user.email throws when req.user was never set
         Done(IF u = None THEN Json(500, "TypeError") ELSE Json(200, [email |-> u.email]))
    [] h = "logout" -> logout(r)
    [] h = "listWorkspaces" -> Await("ws_list", None, 0)
    [] h = "createWorkspace" ->
         \* lines 422-431
         IF Falsy(r.body.name) \/ Trim(r.body.name) = << >>
           THEN Done(Json(400, "Workspace name is required"))
           ELSE Await("ws_insert", [id |-> randomUUID, name |-> Trim(r.body.name)], 1)
    [] h = "deleteWorkspace" -> Await("ws_count", None, 0)
    [] h = "listDocuments" -> Await("doc_list", None, 0)
    [] h = "createDocument" ->
         \* lines 480-484
         IF \/ Falsy(r.body.name) \/ Falsy(r.body.description)
            \/ r.body.expirationDate = NoValue \/ ~isValidDate(r.body.expirationDate)
            \/ r.body.workspaceId = NoValue
           THEN Done(Json(400, "name, description, workspaceId, and a valid expirationDate are required"))
           ELSE Await("doc_exists", None, 0)
    [] h = "updateDocument" ->
         \* lines 525-534
         IF r.body.expirationDate = NoValue \/ ~isValidDate(r.body.expirationDate)
           THEN Done(Json(400, "A valid expirationDate is required"))
           ELSE IF r.body.workspaceId # NoValue
             THEN Await("upd_exists", None, 0)
             ELSE Await("upd_select", None, 0)
    [] h = "deleteDocument" -> Await("doc_delete", None, 0)

ApiCanStart(p) ==
  /\ phase = "listening"
  /\ pc[p] = "idle"
  /\ \A q \in Procs : q < p => pc[q] # "idle"
  /\ nreq < MaxApiRequests

\* A request runs through the matching layers until one of them
\* answers or awaits. requireAuth either answers 401 or sets req.user and
\* calls next(); with no layer left the router answers 404.
Dispatch(p, r) ==
  \E chain \in {Chain(r)} :
  LET guarded == chain # << >> /\ Head(chain) = "requireAuth"
      verdict == requireAuth(r.cookie, now)
      rest == IF guarded THEN Tail(chain) ELSE chain
      u == IF guarded THEN verdict.user ELSE None
  IN
  /\ arrived' = [method |-> r.method, path |-> r.path, cookie |-> r.cookie,
                  checked |-> guarded, next |-> guarded /\ verdict.next, user |-> u,
                  handled |-> rest # << >> /\ (guarded => verdict.next)]
  /\ IF guarded /\ ~verdict.next THEN ApiRespondAtOnce(p, r, None, verdict.res)
     ELSE IF rest = << >> THEN ApiRespondAtOnce(p, r, u, Json(404, "Not Found"))
     ELSE LET b == Begin(Head(rest), r, u) IN
          IF b.label = "done" THEN ApiRespondAtOnce(p, r, u, b.res)
          ELSE ApiStart(p, r, u, Head(rest), b.label, b.doc, b.drawn)
  /\ UNCHANGED << apiFrame, apiData >>

\* A client sends a request and a free handler takes it.
ApiRequest(p) ==
  /\ ApiCanStart(p)
  /\ \E r \in Requests : Dispatch(p, r)

\* ------------------------------------------------------------- workspaces
\* Lines 413-419 with getAllWorkspaces (293-298).
ListWorkspaces(p, ok) ==
  /\ pc[p] = "ws_list"
  /\ ApiRespond(p, IF ok THEN Json(200, workspaces)
                         ELSE Json(500, "Failed to load workspaces"))
  /\ UNCHANGED << apiFrame, apiData >>

\* Lines 432-439: INSERT INTO workspaces (id, name, created_at) VALUES ($1, $2, NOW())
CreateWorkspace(p, ok) ==
  /\ pc[p] = "ws_insert"
  /\ IF ok
       THEN LET row == [id |-> document[p].id, name |-> document[p].name,
                        created_at |-> DbNow] IN
            /\ workspaces' = workspaces \cup {row}
            /\ ApiRespond(p, Json(201, row))
       ELSE /\ ApiRespond(p, Json(500, "Failed to create workspace"))
            /\ UNCHANGED workspaces
  /\ UNCHANGED << apiFrame, items >>

ParamId(p) == req[p].path[3]

\* Lines 447-453: SELECT COUNT(*) FROM items WHERE workspace_id = $1
DeleteWorkspaceCount(p, ok) ==
  /\ pc[p] = "ws_count"
  /\ IF ~ok THEN ApiRespond(p, Json(500, "Failed to delete workspace"))
     ELSE IF Cardinality({d \in items : d.workspace_id = ParamId(p)}) > 0
       THEN ApiRespond(p, Json(400, "Cannot delete workspace that contains documents"))
       ELSE ApiGoto(p, "ws_delete", None, 0)
  /\ UNCHANGED << apiFrame, apiData >>

\* Lines 455-463: DELETE FROM workspaces WHERE id = $1. The statement fails when
\* a row of items references the workspace (items.workspace_id REFERENCES
\* workspaces(id), line 217).
DeleteWorkspace(p, ok) ==
  /\ pc[p] = "ws_delete"
  /\ IF ~ok \/ \E d \in items : d.workspace_id = ParamId(p)
       THEN /\ ApiRespond(p, Json(500, "Failed to delete workspace"))
            /\ UNCHANGED workspaces
     ELSE IF ParamId(p) \notin WorkspaceIds
       THEN /\ ApiRespond(p, Json(404, "Workspace not found"))
            /\ UNCHANGED workspaces
       ELSE /\ workspaces' = {w \in workspaces : w.id # ParamId(p)}
            /\ ApiRespond(p, Json(204, ""))
  /\ UNCHANGED << apiFrame, items >>

\* -------------------------------------------------------------- documents
\* getDocuments(workspaceId || null), lines 305-328
getDocuments(workspaceId) ==
  IF workspaceId # NoValue THEN {d \in items : d.workspace_id = workspaceId} ELSE items

\* listDocumentsHandler, lines 466-474
ListDocuments(p, ok) ==
  /\ pc[p] = "doc_list"
  /\ ApiRespond(p, IF ok THEN Json(200, getDocuments(req[p].query))
                         ELSE Json(500, "Failed to load documents"))
  /\ UNCHANGED << apiFrame, apiData >>

\* workspaceExists(workspaceId), lines 300-303
workspaceExists(workspaceId) == workspaceId \in WorkspaceIds

\* An INSERT or UPDATE of items is refused when workspace_id names no workspace.
ForeignKeyOkMut(doc) == TRUE
ForeignKeyOk(doc) == doc.workspace_id \in WorkspaceIds

\* Lines 486-498: await workspaceExists(workspaceId) outside the try block, then
\* the document object is built.
CreateDocumentExists(p, ok) ==
  LET b == req[p].body IN
  /\ pc[p] = "doc_exists"
  /\ IF ~ok THEN ApiReject(p)
     ELSE IF ~workspaceExists(b.workspaceId)
       THEN ApiRespond(p, Json(400, "Selected workspace does not exist"))
       ELSE ApiGoto(p, "doc_insert",
                    [id |-> randomUUID, name |-> Trim(b.name),
                     description |-> Trim(b.description),
                     expiration_date |-> toISOString(b.expirationDate),
                     workspace_id |-> b.workspaceId,
                     created_by |-> IF user[p] # None THEN user[p].email
                                    ELSE << "unknown", "@pooleng.com" >>], 1)
  /\ UNCHANGED << apiFrame, apiData >>

\* Lines 500-518: INSERT INTO items (...) VALUES (..., NOW())
CreateDocument(p, ok) ==
  /\ pc[p] = "doc_insert"
  /\ IF ok /\ ForeignKeyOk(document[p])
       THEN LET d == document[p]
                row == [id |-> d.id, name |-> d.name, description |-> d.description,
                        expiration_date |-> d.expiration_date,
                        workspace_id |-> d.workspace_id, created_by |-> d.created_by,
                        created_at |-> DbNow] IN
            /\ items' = items \cup {row}
            /\ ApiRespond(p, Json(201, row))
       ELSE /\ ApiRespond(p, Json(500, "Failed to create document"))
            /\ UNCHANGED items
  /\ UNCHANGED << apiFrame, workspaces >>

\* Lines 532-534: await workspaceExists(workspaceId) outside the try block
UpdateDocumentExists(p, ok) ==
  /\ pc[p] = "upd_exists"
  /\ IF ~ok THEN ApiReject(p)
     ELSE IF ~workspaceExists(req[p].body.workspaceId)
       THEN ApiRespond(p, Json(400, "Selected workspace does not exist"))
       ELSE ApiGoto(p, "upd_select", None, 0)
  /\ UNCHANGED << apiFrame, apiData >>

\* Lines 548-555: the stored row overlaid with the fields the body supplies.
updatedDocument(stored, b) ==
  [stored EXCEPT
     !.name = IF b.name # NoText THEN Trim(b.name) ELSE @,
     !.description = IF b.description # NoText THEN Trim(b.description) ELSE @,
     !.workspace_id = IF b.workspaceId # NoValue THEN b.workspaceId ELSE @,
     !.expiration_date = toISOString(b.expirationDate)]

\* Lines 536-555: SELECT ... FROM items WHERE id = $1
UpdateDocumentSelect(p, ok) ==
  LET rows == {d \in items : d.id = ParamId(p)} IN
  /\ pc[p] = "upd_select"
  /\ IF ~ok THEN ApiRespond(p, Json(500, "Failed to update document"))
     ELSE IF rows = {} THEN ApiRespond(p, Json(404, "Document not found"))
     ELSE ApiGoto(p, "upd_update",
                  updatedDocument(CHOOSE d \in rows : TRUE, req[p].body), 0)
  /\ UNCHANGED << apiFrame, apiData >>

\* Lines 557-575: UPDATE items SET name, description, expiration_date,
\* workspace_id WHERE id = $5 RETURNING ...; result.rows[0] is undefined when
\* the row is gone.
UpdateDocument(p, ok) ==
  LET u == document[p]
      rows == {d \in items : d.id = ParamId(p)}
      written == {[d EXCEPT !.name = u.name, !.description = u.description,
                            !.expiration_date = u.expiration_date,
                            !.workspace_id = u.workspace_id] : d \in rows}
  IN
  /\ pc[p] = "upd_update"
  /\ IF ok /\ (rows = {} \/ ForeignKeyOk(u))
       THEN /\ items' = (items \ rows) \cup written
            /\ ApiRespond(p, Json(200, written))
       ELSE /\ ApiRespond(p, Json(500, "Failed to update document"))
            /\ UNCHANGED items
  /\ UNCHANGED << apiFrame, workspaces >>

\* deleteDocumentById(id, res), lines 581-592
DeleteDocument(p, ok) ==
  /\ pc[p] = "doc_delete"
  /\ IF ~ok
       THEN /\ ApiRespond(p, Json(500, "Failed to delete document"))
            /\ UNCHANGED items
     ELSE IF ParamId(p) \notin DocumentIds
       THEN /\ ApiRespond(p, Json(404, "Document not found"))
            /\ UNCHANGED items
       ELSE /\ items' = {d \in items : d.id # ParamId(p)}
            /\ ApiRespond(p, Json(204, ""))
  /\ UNCHANGED << apiFrame, workspaces >>

\* ------------------------------------------------------------------ clock
\* A day goes by.
NextDay ==
  /\ now < MaxDays * DayMinutes
  /\ now' = now + DayMinutes
  /\ arrived' = None
  /\ apiSent' = None
  /\ UNCHANGED << memVars, bootVars, dbSkew, mailMode, route, pc, nreq, authVars, workspaces, items,
                  req, user, document, touched, uuid, jar, loggedOut >>

Tick ==
  /\ arrived' = None
  /\ apiSent' = None
  /\ UNCHANGED << workspaces, items, req, user, document, touched, uuid, jar,
                  loggedOut >>
  /\ now < MaxTime
  /\ now' = now + 1
  /\ sent' = None
  /\ UNCHANGED << memVars, bootVars, dbSkew, mailMode, magic_tokens, route, pc, email, rawToken,
                  expiresAt, histVars, removed, startedAfter, dispatched, nreq >>

\* ================================================================ startup
\* What a startup leaves alone: the clocks, the requests served before, the
\* token table, the credentials issued.
bootFrame == << memVars, now, dbSkew, env, restarts, consumedBefore, route, pc, nreq,
                authVars, req, user, document, touched, jar, loggedOut, arrived,
                apiSent >>

\* .catch((error) => { ...; process.exit(1) }) at lines 617-620
Exit ==
  /\ phase' = "exited"
  /\ UNCHANGED << workspaces, items, uuid, mailMode, defaultWorkspaceId, cursor,
                  imports >>

Proceed(label) ==
  /\ phase' = label
  /\ UNCHANGED << workspaces, items, uuid, mailMode, defaultWorkspaceId, cursor,
                  imports >>

\* Lines 201-230: the three CREATE TABLE IF NOT EXISTS
CreateTables(ok) ==
  /\ phase = "db_create"
  /\ IF ok THEN Proceed("db_default") ELSE Exit
  /\ UNCHANGED bootFrame

\* SELECT id FROM workspaces WHERE name = $1 ORDER BY created_at ASC LIMIT 1:
\* the rows it can return (one of the oldest, or none).
OldestNamedMut(name) == {}
OldestNamed(name) ==
  {w \in workspaces :
     /\ w.name = name
     /\ \A o \in workspaces : o.name = name => w.created_at <= o.created_at}

\* Lines 232-246: the SELECT, then defaultWorkspaceId is drawn or read.
SelectDefaultWorkspace(ok) ==
  /\ phase = "db_default"
  /\ IF ~ok THEN Exit
     ELSE IF OldestNamed(<<"General">>) = {}
       THEN /\ defaultWorkspaceId' = randomUUID
            /\ uuid' = uuid + 1
            /\ phase' = "db_insert"
            /\ UNCHANGED << workspaces, items, mailMode, cursor, imports >>
       ELSE /\ \E w \in OldestNamed(<<"General">>) : defaultWorkspaceId' = w.id
            /\ phase' = "db_count"
            /\ UNCHANGED << workspaces, items, uuid, mailMode, cursor, imports >>
  /\ UNCHANGED bootFrame

\* Lines 240-243: INSERT INTO workspaces (id, name, created_at) VALUES ($1, $2, NOW())
InsertDefaultWorkspace(ok) ==
  /\ phase = "db_insert"
  /\ IF ok
       THEN /\ workspaces' = workspaces \cup
                 {[id |-> defaultWorkspaceId, name |-> <<"General">>, created_at |-> DbNow]}
            /\ phase' = "db_count"
            /\ UNCHANGED << items, uuid, mailMode, defaultWorkspaceId, cursor, imports >>
       ELSE Exit
  /\ UNCHANGED bootFrame

\* backend/data.json as JSON.parse returns it: a document with an id, and an
\* entry the loop skips (no name).
LegacyItems ==
  << [id |-> "d1", name |-> << "L" >>, description |-> << "d" >>,
      expirationDate |-> "2030-01-01"],
     [id |-> NoValue, name |-> NoText, description |-> << "d" >>,
      expirationDate |-> "2030-01-01"] >>

\* Lines 258-260: the entries the loop does not skip, from position i on.
Importable(i) ==
  {k \in i..Len(LegacyItems) :
     /\ ~Falsy(LegacyItems[k].name)
     /\ ~Falsy(LegacyItems[k].description)
     /\ isValidDate(LegacyItems[k].expirationDate)}

Min(S) == CHOOSE k \in S : \A o \in S : k <= o

\* The loop runs on to its next INSERT, or ends and the backfill is issued.
ImportFrom(i) ==
  IF Importable(i) = {} THEN phase' = "db_backfill" /\ cursor' = 0
  ELSE phase' = "db_legacy" /\ cursor' = Min(Importable(i))

\* Lines 248-257: SELECT COUNT(*) FROM items; with no row and data.json present
\* the file is read and the loop entered.
CountItems(ok) ==
  /\ phase = "db_count"
  /\ IF ~ok THEN Exit
     ELSE /\ IF items = {} /\ env.legacy
               THEN ImportFrom(1)
               ELSE phase' = "db_backfill" /\ cursor' = 0
          /\ UNCHANGED << workspaces, items, uuid, mailMode, defaultWorkspaceId, imports >>
  /\ UNCHANGED bootFrame

\* Lines 262-274: INSERT INTO items of the entry at the cursor, in the default
\* workspace; an INSERT that throws (the database, or an id already stored)
\* ends the loop in the catch of line 277.
ImportLegacyItem(ok) ==
  LET item == LegacyItems[cursor]
      row == [id |-> IF item.id = NoValue THEN randomUUID ELSE item.id,
              name |-> Trim(item.name), description |-> Trim(item.description),
              expiration_date |-> toISOString(item.expirationDate),
              workspace_id |-> defaultWorkspaceId,
              created_by |-> << "legacy", "@pooleng.com" >>,
              created_at |-> DbNow] IN
  /\ phase = "db_legacy"
  /\ IF ok /\ row.id \notin DocumentIds /\ ForeignKeyOk(row)
       THEN /\ items' = items \cup {row}
            /\ uuid' = IF item.id = NoValue THEN uuid + 1 ELSE uuid
            /\ imports' = imports \cup {restarts}
            /\ ImportFrom(cursor + 1)
       ELSE /\ phase' = "db_backfill"
            /\ cursor' = 0
            /\ UNCHANGED << items, uuid, imports >>
  /\ UNCHANGED << workspaces, mailMode, defaultWorkspaceId >>
  /\ UNCHANGED bootFrame

\* Lines 283-290: the three UPDATEs of rows that lack a workspace, an author or
\* a creation date (every INSERT of the program passes NOW() as created_at).
BackfillRow(d) ==
  [d EXCEPT !.workspace_id = IF @ \in {NoValue, ""} THEN defaultWorkspaceId ELSE @,
            !.created_by = IF @ = NoText \/ @ = << >>
                             THEN << "legacy", "@pooleng.com" >> ELSE @]

Backfill(ok) ==
  /\ phase = "db_backfill"
  /\ IF ok
       THEN /\ items' = {BackfillRow(d) : d \in items}
            /\ phase' = "mail"
            /\ UNCHANGED << workspaces, uuid, mailMode, defaultWorkspaceId, cursor,
                            imports >>
       ELSE Exit
  /\ UNCHANGED bootFrame

\* Lines 136-153: the mode the environment selects.
initializeMailSenderMut(e) ==
  IF e.smtp THEN "smtp" ELSE IF e.brevo THEN "brevo_api" ELSE "fallback"
initializeMailSender(e) ==
  IF e.brevo THEN "brevo_api" ELSE IF e.smtp THEN "smtp" ELSE "fallback"

\* Lines 612-616: await initializeMailSender(); app.listen(PORT, ...)
InitializeMailSender ==
  /\ phase = "mail"
  /\ mailMode' = initializeMailSender(env)
  /\ phase' = "listening"
  /\ UNCHANGED << workspaces, items, uuid, defaultWorkspaceId, cursor, imports >>
  /\ UNCHANGED bootFrame

\* The process ends (it has exited, it is stopped or it crashes) and is started
\* again: its variables are those of lines 38-40 again and the requests it was
\* serving are gone; the database keeps its tables.
Restart ==
  /\ restarts < MaxRestarts
  /\ restarts' = restarts + 1
  /\ consumedBefore' = consumed
  /\ phase' = "db_create"
  /\ mailMode' = "fallback"
  /\ defaultWorkspaceId' = NoValue
  /\ cursor' = 0
  /\ route' = [p \in Procs |-> "none"]
  /\ pc' = [p \in Procs |-> "idle"]
  /\ email' = [p \in Procs |-> << >>]
  /\ rawToken' = [p \in Procs |-> MissingToken]
  /\ expiresAt' = [p \in Procs |-> 0]
  /\ startedAfter' = [p \in Procs |-> NoStart]
  /\ dispatched' = [p \in Procs |-> << >>]
  /\ req' = [p \in Procs |-> None]
  /\ user' = [p \in Procs |-> None]
  /\ document' = [p \in Procs |-> None]
  /\ touched' = [p \in Procs |-> 0]
  /\ sent' = None
  /\ arrived' = None
  /\ apiSent' = None
  /\ magicTokens' = {}
  /\ memSent' = None
  /\ UNCHANGED << now, dbSkew, env, nreq, imports, uuid, magic_tokens, workspaces,
                  items, histVars, removed, jar, loggedOut, memCalls >>

Next ==
  \/ \E p \in Procs, body \in EmailInputs : RequestMagicLink(p, body)
  \/ \E p \in Procs, ok \in BOOLEAN, secret \in Secrets : RmlSweep(p, ok, secret)
  \/ \E p \in Procs, ok \in BOOLEAN : RmlInsert(p, ok)
  \/ \E p \in Procs, ok \in BOOLEAN : RmlSend(p, ok)
  \/ \E p \in Procs, ok \in BOOLEAN : RmlRollback(p, ok)
  \/ \E p \in Procs, token \in Secrets \cup {MissingToken} : VerifyMagic(p, token)
  \/ \E p \in Procs, ok \in BOOLEAN : VmSweep(p, ok)
  \/ \E p \in Procs, ok \in BOOLEAN : VmSelect(p, ok)
  \/ \E p \in Procs, ok \in BOOLEAN : VmDelete(p, ok)
  \/ Tick

Spec == Init /\ [][Next]_vars

\* The session and CRUD routes, with sessions issued as verify-magic issues them.
NextApi ==
  \/ \E e \in Identities : IssueSession(e)
  \/ \E p \in Procs : ApiRequest(p)
  \/ \E p \in Procs, ok \in BOOLEAN : ListWorkspaces(p, ok)
  \/ \E p \in Procs, ok \in BOOLEAN : CreateWorkspace(p, ok)
  \/ \E p \in Procs, ok \in BOOLEAN : DeleteWorkspaceCount(p, ok)
  \/ \E p \in Procs, ok \in BOOLEAN : DeleteWorkspace(p, ok)
  \/ \E p \in Procs, ok \in BOOLEAN : ListDocuments(p, ok)
  \/ \E p \in Procs, ok \in BOOLEAN : CreateDocumentExists(p, ok)
  \/ \E p \in Procs, ok \in BOOLEAN : CreateDocument(p, ok)
  \/ \E p \in Procs, ok \in BOOLEAN : UpdateDocumentExists(p, ok)
  \/ \E p \in Procs, ok \in BOOLEAN : UpdateDocumentSelect(p, ok)
  \/ \E p \in Procs, ok \in BOOLEAN : UpdateDocument(p, ok)
  \/ \E p \in Procs, ok \in BOOLEAN : DeleteDocument(p, ok)
  \/ Tick
  \/ NextDay

\* The API routes read neither the mail mode nor, but for created_at, the
\* database clock.
InitApi == Init /\ mailMode = "fallback" /\ dbSkew = 0

SpecApi == InitApi /\ [][NextApi]_vars

\* The process from its start: initializeDatabase, initializeMailSender, listen.
NextBoot ==
  \/ \E ok \in BOOLEAN : CreateTables(ok)
  \/ \E ok \in BOOLEAN : SelectDefaultWorkspace(ok)
  \/ \E ok \in BOOLEAN : InsertDefaultWorkspace(ok)
  \/ \E ok \in BOOLEAN : CountItems(ok)
  \/ \E ok \in BOOLEAN : ImportLegacyItem(ok)
  \/ \E ok \in BOOLEAN : Backfill(ok)
  \/ InitializeMailSender
  \/ Restart

\* The process is started: nothing of lines 610-620 has run yet.
InitBoot ==
  /\ InitRequests
  /\ dbSkew = 0
  /\ mailMode = "fallback"
  /\ items = {}
  /\ phase = "db_create"
  /\ defaultWorkspaceId = NoValue
  /\ cursor = 0
  /\ restarts = 0
  /\ imports = {}
  /\ consumedBefore = {}

Environment(brevo, smtp, legacy) == [brevo |-> brevo, smtp |-> smtp, legacy |-> legacy]

\* Startup and restarts on a new database or on one an earlier process has
\* initialised, with and without a data.json, and between them the requests
\* that take rows away: the DELETE routes of workspaces and documents.
InitStartup ==
  /\ InitBoot
  /\ workspaces \in {{}, {General}}
  /\ env \in {Environment(FALSE, FALSE, legacy) : legacy \in BOOLEAN}

DeleteRequest(p) ==
  /\ ApiCanStart(p)
  /\ \E r \in {d \in Requests : d.method = "DELETE"} : Dispatch(p, r)

NextStartup ==
  \/ NextBoot
  \/ \E e \in Identities : IssueSession(e)
  \/ \E p \in Procs : DeleteRequest(p)
  \/ \E p \in Procs, ok \in BOOLEAN : DeleteWorkspaceCount(p, ok)
  \/ \E p \in Procs, ok \in BOOLEAN : DeleteWorkspace(p, ok)
  \/ \E p \in Procs, ok \in BOOLEAN : DeleteDocument(p, ok)

SpecStartup == InitStartup /\ [][NextStartup]_vars

\* Startup and restarts with the magic-link routes, under each mail
\* configuration.
InitRestart ==
  /\ InitBoot
  /\ \/ env = Environment(TRUE, TRUE, FALSE) /\ workspaces = {General}
     \/ env = Environment(FALSE, TRUE, FALSE) /\ workspaces = {General}
     \/ env = Environment(FALSE, FALSE, TRUE) /\ workspaces = {}

SpecRestart == InitRestart /\ [][NextBoot \/ Next]_vars

\* ===================================================== the in-memory variant
\* The server of src/frontend/src/App.jsx keeps the pending tokens in
\* const magicTokens = new Map() (line 939) and has no database.
\* sweepExpiredMagicTokens(), lines 964-970
sweepExpiredMagicTokens(map, t) == {entry \in map : ~(entry.expiresAt <= t)}

\* magicTokens.delete(key), magicTokens.set(key, value)
MapDelete(map, key) == {entry \in map : entry.key # key}
MapSet(map, key, e, x) ==
  MapDelete(map, key) \cup {[key |-> key, email |-> e, expiresAt |-> x]}

MemOutcome(map, httpRes, setCookie) == [map |-> map, res |-> httpRes, cookie |-> setCookie]

\* POST /auth/request-magic-link, lines 1152-1202: the map and the response the
\* call leaves when randomBytes returns secret, Date.now() is t, the
\* transporter of line 1029 is set or not and sendMail resolves or throws.
MemRequestMagicLink(body, secret, t, ready, mailOk) ==
  LET e == NormalizeEmail(body)
      tokenHash == hashToken(secret)
      stored == MapSet(sweepExpiredMagicTokens(magicTokens, t), tokenHash, e,
                       ExpiryOf(t))
  IN  IF ~isPoolEngEmail(e) THEN MemOutcome(magicTokens, InvalidIdentity, None)
      ELSE IF ~ready
        THEN \* line 1159
             MemOutcome(magicTokens,
                        Json(503, <<"Email service not ready. Try again in a few seconds.">>),
                        None)
      ELSE IF mailOk THEN MemOutcome(stored, Acknowledgement(e, secret), None)
      ELSE MemOutcome(MapDelete(stored, tokenHash), DeliveryFailure(e, secret), None)

\* GET /auth/verify-magic, lines 1204-1222: synchronous.
MemVerifyMagic(token, t) ==
  LET swept == sweepExpiredMagicTokens(magicTokens, t)
      tokenHash == hashToken(token)
      \* magicTokens.get(tokenHash)
      found == {entry \in swept : entry.key = tokenHash}
  IN  IF token = MissingToken
        THEN MemOutcome(magicTokens, LoginError("missing_token"), None)
      ELSE IF found = {} \/ (\E tokenRecord \in found : tokenRecord.expiresAt <= t)
        THEN MemOutcome(MapDelete(swept, tokenHash),
                        LoginError("expired_or_invalid"), None)
      ELSE MemOutcome(MapDelete(swept, tokenHash), Dashboard,
                      createSessionToken((CHOOSE tokenRecord \in found : TRUE).email, t))

\* The in-memory variant has been given every call the durable variant has
\* been given, and no call is under way.
Synced == memCalls = nreq /\ \A p \in Procs : pc[p] = "idle"

\* The in-memory variant is given the call the durable variant has just
\* answered: the same body or token, the same value of randomBytes, the same
\* outcome of the mail dispatch, at the same Date.now(); its transporter is set.
MemReplay ==
  /\ sent # None
  /\ memCalls < nreq
  /\ \A p \in Procs : pc[p] = "idle"
  /\ \E out \in {IF sent.route = "request-magic-link"
                   THEN MemRequestMagicLink(sent.email, sent.rawToken, now, TRUE,
                                            sent.res.status # 500)
                   ELSE MemVerifyMagic(sent.rawToken, now)} :
       /\ magicTokens' = out.map
       /\ memSent' = [route |-> sent.route, rawToken |-> sent.rawToken,
                      res |-> out.res, cookie |-> out.cookie]
  /\ memCalls' = memCalls + 1
  /\ UNCHANGED << now, dbSkew, mailMode, route, pc, nreq, authVars, apiVars, bootVars >>

\* The two variants side by side: one call at a time, each given to the durable
\* variant and then to the in-memory one, the clock advancing between calls,
\* every query of the durable variant succeeding, both clocks of the durable
\* variant agreeing. (With the sweep succeeding and no time passing within a
\* call, the SELECT of verify-magic never returns an expired row.)
InitVariants == Init /\ dbSkew = 0 /\ mailMode = "smtp"

\* A call arrives when the one before has been answered by both variants, and
\* the clock advances between calls.
RequestCall == Synced /\ \E body \in EmailInputs : RequestMagicLink(1, body)
VerifyCall == Synced /\ \E token \in Secrets \cup {MissingToken} : VerifyMagic(1, token)
ClockAdvance == Synced /\ Tick

NextVariants ==
  \/ RequestCall
  \/ \E secret \in Secrets : RmlSweep(1, TRUE, secret)
  \/ RmlInsert(1, TRUE)
  \/ \E ok \in BOOLEAN : RmlSend(1, ok)
  \/ RmlRollback(1, TRUE)
  \/ VerifyCall
  \/ VmSweep(1, TRUE)
  \/ VmSelect(1, TRUE)
  \/ MemReplay
  \/ ClockAdvance

SpecVariants == InitVariants /\ [][NextVariants]_vars

\* ------------------------------------------------- the update route alone
\* A document an earlier startup has imported from data.json (lines 262-279).
StoredDocument ==
  [id |-> "d0", name |-> << "K" >>, description |-> << "e" >>,
   expiration_date |-> "2031-06-30T12:00:00.000Z", workspace_id |-> General.id,
   created_by |-> << "legacy", "@pooleng.com" >>, created_at |-> 0]

\* The process listens on a database that holds that document; the requests
\* are those of PUT /api/documents/:id and PUT /api/items/:id.
InitUpdate ==
  /\ InitRequests
  /\ dbSkew = 0
  /\ mailMode = "fallback"
  /\ workspaces = {General}
  /\ items = {StoredDocument}
  /\ phase = "listening"
  /\ env = Environment(FALSE, FALSE, TRUE)
  /\ defaultWorkspaceId = General.id
  /\ cursor = 0
  /\ restarts = 0
  /\ imports = {}
  /\ consumedBefore = {}

UpdateRequest(p) ==
  /\ ApiCanStart(p)
  /\ \E r \in {u \in Requests : u.method = "PUT"} : Dispatch(p, r)

NextUpdate ==
  \/ \E e \in Identities : IssueSession(e)
  \/ \E p \in Procs : UpdateRequest(p)
  \/ \E p \in Procs, ok \in BOOLEAN : UpdateDocumentExists(p, ok)
  \/ \E p \in Procs, ok \in BOOLEAN : UpdateDocumentSelect(p, ok)
  \/ \E p \in Procs, ok \in BOOLEAN : UpdateDocument(p, ok)

SpecUpdate == InitUpdate /\ [][NextUpdate]_vars

\* ================================================================= claims
InvalidOrExpired == LoginError("expired_or_invalid")

\* The last step answered a verify-magic request that presented a secret.
VerifyAnswered ==
  sent # None /\ sent.route = "verify-magic" /\ sent.rawToken # MissingToken

\* The rows of the table for a secret (none or one: token_hash is the key).
RowsOf(secret) == {row \in magic_tokens : row.token_hash = hashToken(secret)}

\* The row of the secret the last response is about is in the table.
SentRowStored == RowsOf(sent.rawToken) # {}
SentRow == CHOOSE row \in RowsOf(sent.rawToken) : TRUE

\* A step that runs the sweep's DELETE (inside request-magic-link or verify-magic).
IsSweepStep ==
  \E p \in Procs : pc[p] \in {"rml_sweep", "vm_sweep"} /\ pc'[p] # pc[p]

\* C1 (as claimed): a verify-magic request that starts after a verify-magic for
\* the same secret has answered with a session is answered with the
\* invalid-or-expired outcome and gets no session cookie.
C1_SequentialSingleUse ==
  (VerifyAnswered /\ sent.startedAfter.used)
    => (sent.res = InvalidOrExpired /\ sent.cookie = None)

\* C2 (as claimed): of two verify-magic requests for the same secret that are in
\* flight together, at most one is answered with a session: a request that
\* started before any success for its secret and answers after one is refused.
C2_ConcurrentSingleUse ==
  (VerifyAnswered /\ ~sent.startedAfter.used /\ sent.replay)
    => sent.res # Dashboard

\* C3: when verify-magic answers for a secret whose stored row has
\* expires_at <= Date.now(), the answer is the invalid-or-expired outcome with
\* no session cookie, whatever the sweeps did before; and a session cookie is
\* only ever issued strictly before the expiry of the row that was read.
C3_ExpiredNeverRedeemed ==
  VerifyAnswered =>
    /\ (SentRowStored /\ SentRow.expires_at <= now)
          => (sent.res = InvalidOrExpired /\ sent.cookie = None)
    /\ sent.cookie # None => sent.cookie.iat < sent.tokenRecord.expires_at

\* C3 witness: an expired row that no sweep removed is presented and refused.
C3_Witness ==
  /\ VerifyAnswered
  /\ SentRowStored
  /\ SentRow.expires_at <= now
  /\ sent.res = InvalidOrExpired

\* C4 (as claimed): once request-magic-link has answered that the dispatch
\* failed, the row it inserted is gone from the table, and no verify-magic that
\* starts after the failed dispatch is answered with a session for that secret.
C4_RollbackOnDeliveryFailure ==
  /\ (sent # None /\ sent.route = "request-magic-link" /\ sent.res.status = 500)
        => RowsOf(sent.rawToken) = {}
  /\ (VerifyAnswered /\ sent.startedAfter.undelivered) => sent.res # Dashboard

\* An identity in normal form: no blanks around it, no upper-case symbol in it.
IsCanonical(e) ==
  /\ e # << >>
  /\ \A i \in 1..Len(e) : e[i] \notin {" ", "A", "B", "@PoolEng.com"}

\* C5: a session cookie is set only by a verify-magic that read a stored row
\* that is not expired, the credential is the one createSessionToken signs for
\* the identity the secret was issued for, in normal form; every other answer
\* of verify-magic (and every answer of another route) sets no cookie.
C5_SessionOnlyFromStoredToken ==
  sent # None =>
    /\ sent.cookie # None =>
         /\ sent.route = "verify-magic"
         /\ sent.res = Dashboard
         /\ SentRowStored
         /\ SentRow = sent.tokenRecord
         /\ sent.tokenRecord.expires_at > now
         /\ minted[sent.rawToken] # None
         /\ sent.cookie.email = minted[sent.rawToken]
         /\ IsCanonical(sent.cookie.email)
         /\ sent.cookie.sig =
              Sign(sent.cookie.email, sent.cookie.iat, sent.cookie.exp, JWT_SECRET)
    /\ (sent.route = "verify-magic" /\ sent.res # Dashboard) => sent.cookie = None

\* C5 witness: a session is issued for the identity that was requested as
\* " B@PoolEng.com ".
C5_Witness ==
  /\ VerifyAnswered
  /\ sent.res = Dashboard
  /\ sent.cookie # None
  /\ sent.cookie.email = <<"b", "@pooleng.com">>

\* C8 (as claimed): verify-magic gives the same answer, the invalid-or-expired
\* redirect without a cookie, for a secret that was never issued, for one that
\* has already been redeemed, and for one whose row has expired.
C8_UniformRedemptionFailure ==
  (VerifyAnswered /\ (\/ minted[sent.rawToken] = None
                      \/ sent.startedAfter.used
                      \/ (SentRowStored /\ SentRow.expires_at <= now)))
    => (sent.res = InvalidOrExpired /\ sent.cookie = None)

\* C9 (as claimed): a sweep removes no row that is not yet expired
\* (expires_at > Date.now(), the test verify-magic applies): such a row is still
\* in the table after the sweep.
C9_SweepSafety ==
  [][IsSweepStep =>
       \A row \in magic_tokens : row.expires_at > now => row \in magic_tokens']_vars

\* C10 (as claimed): when an invocation of deleteExpiredMagicTokens has
\* returned, no row with expires_at <= NOW() is left in the table.
C10_SweepCompleteness ==
  [][IsSweepStep =>
       \A row \in magic_tokens' : row.expires_at > DbNow]_vars

\* ------------------------------------------------ claims on the API routes
\* The credential carries the signature the server's key gives its claims.
SignedByServer(c) == c.sig = Sign(c.email, c.iat, c.exp, JWT_SECRET)
ValidAt(c, t) == c # None /\ SignedByServer(c) /\ t < c.exp

\* C6: requireAuth lets a request through, with the identity of the credential
\* as req.user, exactly when the credential is signed with JWT_SECRET and
\* now < exp; what createSessionToken did not issue, what was altered after
\* issue and what has expired is answered 401.
C6_RequireAuthAcceptsIffValid ==
  (arrived # None /\ arrived.checked) =>
    /\ arrived.next <=> ValidAt(arrived.cookie, now)
    /\ arrived.next => /\ arrived.cookie \in jar
                       /\ arrived.user = Payload(arrived.cookie)
    /\ ~arrived.next => /\ ~arrived.handled
                        /\ apiSent # None /\ apiSent.res.status = 401

\* C6 witness: an issued credential is accepted some time after its issue.
C6_Witness ==
  /\ arrived # None /\ arrived.checked /\ arrived.next
  /\ arrived.cookie.iat < now

IsProtected(path) ==
  /\ Len(path) >= 2
  /\ << path[1], path[2] >> \in {<<"auth", "me">>, <<"api", "workspaces">>,
                                  <<"api", "documents">>, <<"api", "items">>}

\* C7: a request to /auth/me or to a path under /api/workspaces, /api/documents
\* or /api/items with no credential, or with one that is not valid when it
\* arrives, is answered 401 before any handler or query runs; every handler at
\* work on such a path was handed a credential the server issued.
C7_ProtectedRoutesNeedSession ==
  /\ (arrived # None /\ IsProtected(arrived.path) /\ ~ValidAt(arrived.cookie, now))
        => /\ ~arrived.handled
           /\ apiSent # None /\ apiSent.res.status = 401 /\ apiSent.queries = 0
  /\ \A p \in Procs :
        (req[p] # None /\ IsProtected(req[p].path))
           => req[p].cookie \in jar /\ user[p] = Payload(req[p].cookie)

\* C7 witness: an issued credential that has expired is presented on a DELETE of
\* a document, while the document exists.
C7_Witness ==
  /\ arrived # None /\ arrived.method = "DELETE" /\ Len(arrived.path) = 3
  /\ arrived.path[2] = "items" /\ arrived.path[3] \in DocumentIds
  /\ arrived.cookie \in jar /\ now >= arrived.cookie.exp
  /\ apiSent # None /\ apiSent.res.status = 401

\* --------------------------------------------- claims on the token lifecycle
\* C11: a token hash whose row has left the table (swept, deleted as expired
\* by verify-magic, or rolled back after a failed dispatch) is never the key
\* of a row again, whatever requests and sweeps follow.
C11_NoResurrection ==
  \A row \in magic_tokens : row.token_hash \notin removed

\* C11 witness: the row of the first secret has left the table and a later
\* request has stored the row of the second.
C11_Witness ==
  /\ hashToken(1) \in removed
  /\ RowsOf(2) # {}


\* C12 (as claimed): a secret whose row a sweep (or any delete) has removed is
\* never afterwards answered with a session, and the row of a secret that has
\* been answered with a session is not in the table for a sweep to remove.
C12_ConsumeSweepExclusive ==
  [][/\ (sent' # None /\ sent'.route = "verify-magic" /\ sent'.res = Dashboard)
          => hashToken(sent'.rawToken) \notin removed
     /\ IsSweepStep => \A s \in consumed : RowsOf(s) \subseteq magic_tokens']_vars


\* ------------------------------------------ claims on request-magic-link
\* The organisation's allowed pattern, read on a trimmed lower-cased identity:
\* a non-empty local part followed by the domain.
MatchesAllowedPattern(e) ==
  /\ Len(e) >= 2
  /\ e[Len(e)] = "@pooleng.com"
  /\ \A i \in 1..(Len(e) - 1) : e[i] \in {"a", "b"}

\* C13: a request-magic-link call whose identity, trimmed and lower-cased, does
\* not match the allowed pattern is answered with the InvalidIdentity client
\* error (400) in the step it arrives in: no handler is left running for it, no
\* secret is drawn, no row is stored, no mail is handed over, and the token
\* table is after the step exactly what it was before.
C13_InvalidIdentityRejected ==
  [][/\ \A p \in Procs :
          route'[p] = "request-magic-link" => MatchesAllowedPattern(email'[p])
     /\ (sent' # None /\ sent'.route = "request-magic-link"
           /\ ~MatchesAllowedPattern(sent'.email))
          => /\ sent'.res.status = 400
             /\ sent'.res = InvalidIdentity
             /\ sent'.cookie = None
             /\ sent'.mail = << >>
             /\ sent'.rawToken = MissingToken
             /\ magic_tokens' = magic_tokens
             /\ minted' = minted
             /\ dispatched' = dispatched
             /\ pc' = pc]_vars

\* C13 witness: an identity outside the domain has just been answered 400 while
\* the table holds a row and another call is in flight.
C13_Witness ==
  /\ sent # None
  /\ sent.route = "request-magic-link"
  /\ sent.email = <<"a", "@evil.com">>
  /\ sent.res.status = 400
  /\ magic_tokens # {}
  /\ \E p \in Procs : pc[p] = "rml_send"


\* C14 (as claimed): every request-magic-link call makes exactly one dispatch
\* attempt: every answer of the route is given after one mail has been handed
\* over, and every handler of the route that ends has handed over one.
C14_ExactlyOneDispatch ==
  [][/\ (sent' # None /\ sent'.route = "request-magic-link")
          => Len(sent'.mail) = 1
     /\ \A p \in Procs :
          (route[p] = "request-magic-link" /\ pc'[p] = "idle")
            => Len(dispatched[p]) = 1]_vars

\* The one message of a call: to the call's identity, carrying the link of the
\* call's secret, over the channel of the mail mode.
IsTheOneMail(mails, e, token) ==
  /\ Len(mails) = 1
  /\ mails[1].to = e
  /\ mails[1].link = <<"MAGIC_LINK_BASE_URL", "/auth/verify-magic?token=", token>>
  /\ mails[1].via = CASE mailMode = "brevo_api" -> "fetch"
                      [] mailMode = "smtp" -> "sendMail"
                      [] OTHER -> "console.log"

\* C14 (amended): a call that has stored its token record makes exactly one
\* dispatch attempt, in every mail mode (the local fallback's attempt is the
\* logging of the link), and keeps it at one through a delivery failure and
\* its rollback; a call makes none before that, so a call answered with
\* InvalidIdentity or ended by a failed INSERT has made none; no call makes
\* more than one.
C14_OneDispatchOnceStored ==
  /\ \A p \in Procs : route[p] = "request-magic-link" =>
       IF pc[p] \in {"rml_send", "rml_rollback"}
         THEN IsTheOneMail(dispatched[p], email[p], rawToken[p])
         ELSE dispatched[p] = << >>
  /\ (sent # None /\ sent.route = "request-magic-link") =>
       IF sent.res \in {Acknowledgement(sent.email, sent.rawToken),
                        DeliveryFailure(sent.email, sent.rawToken)}
         THEN IsTheOneMail(sent.mail, sent.email, sent.rawToken)
         ELSE sent.mail = << >> /\ sent.res.status \in {400, 500}

\* C14 witness: under the Brevo API mode a call has been answered after a
\* delivery failure, with its one dispatch attempt behind it.
C14_Witness ==
  /\ mailMode = "brevo_api"
  /\ sent # None
  /\ sent.route = "request-magic-link"
  /\ sent.res.status = 500
  /\ Len(sent.mail) = 1


\* The acknowledgement of the issue-link operation.
UniformAck == Json(200, <<"If the email is valid, a magic login link has been sent.">>)

\* An answer of request-magic-link that reports a delivery failure.
IsDeliveryFailure(r) ==
  /\ r.res.status = 500
  /\ r.mail # << >>
  /\ r.rawToken \in undelivered

\* C15 (as claimed): whatever identity string request-magic-link is given, its
\* answer is the one acknowledgement, unless it reports a delivery failure.
C15_UniformForEveryIdentity ==
  (sent # None /\ sent.route = "request-magic-link")
    => (sent.res = UniformAck \/ IsDeliveryFailure(sent))

\* C15 (amended): for every identity that matches the allowed pattern the
\* answer is the one acknowledgement, the same for each such identity; the
\* answers that differ are InvalidIdentity (400), given to exactly the
\* identities that do not match the pattern, the one for a delivery failure,
\* and the server error after a failed INSERT, before any mail was handed over.
C15_UniformForAllowedIdentities ==
  (sent # None /\ sent.route = "request-magic-link") =>
    IF MatchesAllowedPattern(sent.email)
      THEN \/ sent.res = UniformAck /\ sent.rawToken \notin undelivered
           \/ IsDeliveryFailure(sent)
           \/ sent.res.status = 500 /\ sent.mail = << >>
                /\ RowsOf(sent.rawToken) = {}
      ELSE sent.res = InvalidIdentity

\* C15 witness: the second identity of the domain, sent with blanks and capitals,
\* has been acknowledged after the first one was.
C15_Witness ==
  /\ sent # None
  /\ sent.route = "request-magic-link"
  /\ sent.email = <<"b", "@pooleng.com">>
  /\ sent.res.status = 200
  /\ \E s \in Secrets :
       /\ minted[s] # None
       /\ minted[s] = <<"a", "@pooleng.com">>
       /\ s \notin undelivered


C17_RawSecretNeverPersisted ==
  /\ \A row \in magic_tokens :
       /\ DOMAIN row = {"token_hash", "email", "expires_at"}
       /\ row.token_hash \notin Secrets
       /\ \E s \in Secrets :
            /\ minted[s] # None
            /\ row.token_hash = hashToken(s)
            /\ row.email = minted[s]
       /\ MatchesAllowedPattern(row.email)
       /\ row.expires_at \in MAGIC_LINK_MINUTES..(MaxTime + MAGIC_LINK_MINUTES)
  /\ \A p \in Procs : \A i \in DOMAIN dispatched[p] :
       dispatched[p][i].link =
         <<"MAGIC_LINK_BASE_URL", "/auth/verify-magic?token=", rawToken[p]>>

\* C17 witness: two calls have stored their rows and one of them has handed its
\* link to mail delivery.
C17_Witness ==
  /\ Cardinality(magic_tokens) = 2
  /\ \E p \in Procs : dispatched[p] # << >> /\ rawToken[p] = 2


\* C18 (as claimed): a query on the token store that throws is surfaced as a
\* server fault: the step in which the SELECT of verify-magic throws does not
\* answer with the invalid-or-expired outcome, and a step in which the sweep's
\* DELETE throws answers with a server error instead of letting its caller go
\* on as after a sweep that ran.
C18_StoreFaultsSurfaced ==
  [][\A p \in Procs :
       /\ (VmSelect(p, FALSE) /\ ~VmSelect(p, TRUE))
            => (sent' # None /\ sent'.res # InvalidOrExpired)
       /\ ((VmSweep(p, FALSE) /\ ~VmSweep(p, TRUE))
             \/ \E s \in Secrets : RmlSweep(p, FALSE, s) /\ ~RmlSweep(p, TRUE, s))
            => (sent' # None /\ sent'.res.status = 500)]_vars


\* C19 (as claimed): no request-magic-link or verify-magic request is left
\* without a response: the step that ends a handler of these routes writes
\* the response, also when the INSERT or the mail dispatch has failed.
C19_EveryRequestAnswered ==
  [][\A p \in Procs :
       (route[p] \in {"request-magic-link", "verify-magic"} /\ pc'[p] = "idle")
         => (sent' # None /\ sent'.route = route[p])]_vars


\* ---------------------------------------------- claims on the session lifetime
\* C20: every credential issued carries exp = iat + SESSION_DAYS days; no answer
\* of the session and CRUD routes (a passed session check on /auth/me, a
\* logout, any API call) sets a session cookie, so nothing renews or replaces
\* it; and a request that presents an issued credential, or one derived from
\* it, at or after that credential's original expiry is refused by requireAuth.
C20_SessionExpiryFixed ==
  /\ \A c \in jar :
       /\ c.exp = c.iat + SESSION_DAYS * DayMinutes
       /\ c.iat <= now
  /\ apiSent # None => apiSent.setCookie = None
  /\ (arrived # None /\ arrived.checked /\ arrived.cookie # None) =>
       \A c \in jar :
         (arrived.cookie.iat = c.iat /\ now >= c.iat + SESSION_DAYS * DayMinutes)
           => /\ ~arrived.next
              /\ ~arrived.handled
              /\ apiSent # None
              /\ apiSent.res.status = 401

\* C20 witness: an issued credential, unaltered, is presented to /auth/me at the
\* very minute of its expiry, a minute after it was issued a day earlier, and
\* is refused.
C20_Witness ==
  /\ arrived # None
  /\ arrived.checked
  /\ arrived.cookie \in jar
  /\ arrived.path = <<"auth", "me">>
  /\ arrived.cookie.iat = 1
  /\ now = arrived.cookie.exp
  /\ apiSent # None
  /\ apiSent.res.status = 401


\* ------------------------------------------------------- claims on logout
\* C21: POST /auth/logout is answered 204 with the session cookie cleared
\* whatever cookie the request carries (none, an issued one, an altered or
\* foreign one), in the step it arrives in, without passing requireAuth and
\* without a query; the step changes no table, no issued credential and no
\* handler, so a second logout finds the server as the first did; and an
\* issued credential that a logout request carried is let through by
\* requireAuth afterwards for as long as it has not expired.
C21_LogoutStateless ==
  [][/\ (apiSent' # None /\ apiSent'.method = "POST"
           /\ apiSent'.path = <<"auth", "logout">>)
          => /\ apiSent'.res = Json(204, "")
             /\ apiSent'.clearCookie
             /\ apiSent'.setCookie = None
             /\ apiSent'.queries = 0
             /\ ~arrived'.checked
             /\ UNCHANGED << workspaces, items, magic_tokens, jar, pc, route,
                             req, user, document >>
     /\ (arrived' # None /\ arrived'.checked /\ arrived'.cookie \in loggedOut')
          => (arrived'.next <=> now' < arrived'.cookie.exp)]_vars

\* C21 witness: a credential that a logout request carried is accepted on
\* /auth/me afterwards.
C21_Witness ==
  /\ arrived # None
  /\ arrived.checked
  /\ arrived.cookie \in loggedOut
  /\ arrived.next
  /\ apiSent # None
  /\ apiSent.res.status = 200


\* -------------------------------------- claims on the pending tokens
\* C22 (as claimed): no step of a request-magic-link call touches an earlier
\* pending token of the call's identity: every row of that identity that is
\* not the call's own and is not yet expired (expires_at > Date.now(), the test
\* verify-magic applies) is in the table, unchanged, after the step.
C22_EarlierLinksKept ==
  [][\A p \in Procs :
       (route[p] = "request-magic-link" /\ pc'[p] # pc[p]) =>
         \A row \in magic_tokens :
           (/\ row.email = email[p]
            /\ row.token_hash # hashToken(rawToken[p])
            /\ row.expires_at > now)
             => row \in magic_tokens']_vars


\* C23: the step of request-magic-link that draws the secret dates it
\* Date.now() + MAGIC_LINK_MINUTES; the step that stores it adds exactly the
\* row [hash of the secret, identity, that date] and changes no other row; and
\* a verify-magic whose SELECT runs answers with a session exactly when the
\* secret's row is in the table and Date.now() is before the row's expires_at.
C23_ExpiryIsIssuePlusTtl ==
  [][\A p \in Procs :
       /\ (pc[p] = "rml_sweep" /\ pc'[p] = "rml_insert")
            => expiresAt'[p] = now + MAGIC_LINK_MINUTES
       /\ (pc[p] = "rml_insert" /\ pc'[p] = "rml_send")
            => /\ expiresAt[p] \in MAGIC_LINK_MINUTES..(now + MAGIC_LINK_MINUTES)
               /\ magic_tokens' = magic_tokens \cup
                    {[token_hash |-> hashToken(rawToken[p]), email |-> email[p],
                      expires_at |-> expiresAt[p]]}
       /\ VmSelect(p, TRUE)
            => ((sent' # None /\ sent'.res = Dashboard)
                  <=> (/\ RowsOf(rawToken[p]) # {}
                       /\ \A row \in RowsOf(rawToken[p]) : now < row.expires_at))]_vars

\* C23 witness: a token issued at minute 1 is redeemed at minute 2, the last
\* minute before its expiry.
C23_Witness ==
  /\ VerifyAnswered
  /\ sent.res = Dashboard
  /\ sent.tokenRecord.expires_at = 1 + MAGIC_LINK_MINUTES
  /\ now = MAGIC_LINK_MINUTES


\* ------------------------------------------------------ claims on restarts
\* C24 (as claimed): a secret that a verify-magic answered with a session
\* before the process was restarted is not answered with a session by the
\* process started afterwards.
C24_NoStaleAccessAcrossRestart ==
  (VerifyAnswered /\ sent.rawToken \in consumedBefore) => sent.res # Dashboard


\* ------------------------------------------------------- claims on startup
\* The workspaces named "General".
DefaultWorkspaces(table) == {w \in table : w.name = << "General" >>}

\* C25: when initializeDatabase has run through (the last of its queries has
\* returned) a workspace named "General" is in the table and
\* defaultWorkspaceId is its id; and a step of a startup changes the workspaces
\* table only by adding one workspace named "General" when the table held
\* none of that name, so a startup that finds one creates no other.
C25_DefaultWorkspaceEnsured ==
  [][/\ (phase = "db_backfill" /\ phase' = "mail")
          => \E w \in DefaultWorkspaces(workspaces') : w.id = defaultWorkspaceId'
     /\ (phase # "listening" /\ workspaces' # workspaces)
          => /\ DefaultWorkspaces(workspaces) = {}
             /\ workspaces \subseteq workspaces'
             /\ Cardinality(workspaces' \ workspaces) = 1
             /\ Cardinality(DefaultWorkspaces(workspaces')) = 1]_vars

\* C25 witness: on a new database a startup has created the default workspace,
\* and the process, started again, has come up with that one workspace.
C25_Witness ==
  /\ restarts = 1
  /\ phase = "listening"
  /\ uuid = 1
  /\ Cardinality(workspaces) = 1
  /\ \E w \in DefaultWorkspaces(workspaces) : w.id = "u1" /\ defaultWorkspaceId = "u1"


\* C26 (as claimed): the legacy import runs only on a startup that finds the
\* documents table empty, and once a startup has imported legacy documents no
\* later startup imports them again.
C26_LegacyImportOnce ==
  /\ (phase = "db_legacy" => items = {} \/ restarts \in imports)
  /\ Cardinality(imports) <= 1


\* ------------------------------------------- claims on the in-memory variant
\* The in-memory map read as a table of the durable variant.
MemRows ==
  {[token_hash |-> entry.key, email |-> entry.email, expires_at |-> entry.expiresAt] :
     entry \in magicTokens}

\* C27 (as claimed): given the same sequence of request-magic-link,
\* verify-magic and clock-advance steps, the durable and the in-memory variant
\* answer every verify-magic call alike and hold the same pending tokens
\* after every call.
C27_VariantsEquivalent ==
  Synced =>
    /\ MemRows = magic_tokens
    /\ (sent # None /\ sent.route = "verify-magic")
         => (memSent.res = sent.res /\ memSent.cookie = sent.cookie)


\* ------------------------------------------------------ claims on documents
\* C28: in every reachable state the workspace_id of every document is the id
\* of a workspace in the table, whatever the interleaving of the create,
\* update and delete handlers; so no step deletes a workspace that a
\* document names (the step leaves items alone and would break this).
C28_DocumentsHaveWorkspace ==
  \A d \in items : \E w \in workspaces : w.id = d.workspace_id

\* C28 witness: a DELETE /api/workspaces/:id has counted no document of the
\* workspace and is about to issue its DELETE, and a document of that
\* workspace has been created in between.
C28_Witness ==
  \E p \in Procs :
    /\ pc[p] = "ws_delete"
    /\ ParamId(p) \in WorkspaceIds
    /\ \E d \in items : d.workspace_id = ParamId(p)


\* ------------------------------------------------------- claims on mail mode
\* The mode the configuration asks for: the API if it is configured, otherwise
\* SMTP if it is configured, otherwise the local fallback.
ConfiguredMode ==
  CASE env.brevo -> "brevo_api"
    [] ~env.brevo /\ env.smtp -> "smtp"
    [] OTHER -> "fallback"

\* The way a mail of each mode leaves the process.
ChannelOf(mode) ==
  CASE mode = "brevo_api" -> "fetch"
    [] mode = "smtp" -> "sendMail"
    [] OTHER -> "console.log"

\* C29: mailMode changes only in the step that ends the startup (or with the
\* start of a new process); whenever the process accepts requests it is the
\* mode the configuration asks for; a handler runs, and a mail is handed
\* over, only while the process accepts requests, and the mail goes the way of
\* that mode.
C29_MailModeFixedAtStartup ==
  [][/\ (mailMode' # mailMode)
          => (restarts' # restarts \/ (phase = "mail" /\ phase' = "listening"))
     /\ (phase = "listening" => mailMode = ConfiguredMode)
     /\ (phase' = "listening" => mailMode' = ConfiguredMode')
     /\ \A p \in Procs :
          /\ (pc'[p] # "idle" => phase' = "listening")
          /\ (Len(dispatched'[p]) > Len(dispatched[p]))
               => /\ phase = "listening"
                  /\ mailMode' = mailMode
                  /\ \A i \in 1..Len(dispatched'[p]) :
                       dispatched'[p][i].via = ChannelOf(ConfiguredMode)]_vars

\* C29 witness: with both the API and SMTP configured, the process started a
\* second time has handed a mail to the API.
C29_Witness ==
  /\ restarts = 1
  /\ phase = "listening"
  /\ env.brevo /\ env.smtp
  /\ mailMode = "brevo_api"
  /\ \E p \in Procs : Len(dispatched[p]) = 1 /\ dispatched[p][1].via = "fetch"


\* Handler p ends with the response of a successful update.
UpdateSucceeds(p) ==
  /\ pc[p] = "upd_update"
  /\ pc'[p] = "idle"
  /\ apiSent' # None
  /\ apiSent'.res.status = 200

\* C30 (as claimed): the step of a successful update leaves every other
\* document alone and, in the document it names, sets the fields the request
\* supplies and expirationDate, keeps the stored name, description and
\* workspaceId where the request omits them, and keeps id, createdBy and
\* createdAt; a step that answers an update with anything else leaves the
\* documents unchanged.
C30_UpdateFrame ==
  [][/\ \A p \in Procs :
          UpdateSucceeds(p) =>
            LET b == req[p].body IN
            /\ {d.id : d \in items'} = {d.id : d \in items}
            /\ \A d \in items : d.id # ParamId(p) => d \in items'
            /\ \A d \in items, e \in items' :
                 (d.id = ParamId(p) /\ e.id = ParamId(p)) =>
                   /\ e.created_by = d.created_by
                   /\ e.created_at = d.created_at
                   /\ e.expiration_date = toISOString(b.expirationDate)
                   /\ e.name = (IF b.name = NoText THEN d.name ELSE Trim(b.name))
                   /\ e.description =
                        (IF b.description = NoText THEN d.description
                         ELSE Trim(b.description))
                   /\ e.workspace_id =
                        (IF b.workspaceId = NoValue THEN d.workspace_id
                         ELSE b.workspaceId)
     /\ (apiSent' # None /\ apiSent'.method = "PUT" /\ apiSent'.res.status # 200)
          => items' = items]_vars
====
